---- MODULE Spec2Model ----
(***************************************************************************)
(* Model of src/app.py: the Streamlit script main() of the Deep Research   *)
(* Clone.  One execution of the script ("run") is triggered by every user  *)
(* interaction; st.session_state survives between runs.  A run is cut into *)
(* steps at the blocking calls to the completion service, so that the      *)
(* order of the calls and a fault in the middle of a run are visible.      *)
(***************************************************************************)
EXTENDS Integers, Sequences, FiniteSets, TLC

\* ------------------------------------------------------------------------
\* Bounds of the model
\* ------------------------------------------------------------------------
MaxBatch == 2      \* longest query list a plan or re-plan reply carries
MaxPre == 1        \* longest text before the core of an evaluation reply
MaxSuf == 3        \* longest text after it
MaxText == 9       \* longest question-generation reply, in characters
MaxQuestions == 1  \* answer boxes the page can show

\* ------------------------------------------------------------------------
\* Program constants
\* ------------------------------------------------------------------------
max_iterations == 5

\* ------------------------------------------------------------------------
\* Generic helpers on sequences
\* ------------------------------------------------------------------------
SeqsUpTo(S, n) == UNION {[1..k -> S] : k \in 0..n}

Range(s) == {s[k] : k \in 1..Len(s)}

\* ------------------------------------------------------------------------
\* Text is a sequence of one-character strings
\* ------------------------------------------------------------------------
\* str.lower() on one character
LowerChar(c) ==
    CASE c = "Y" -> "y"
      [] c = "E" -> "e"
      [] c = "S" -> "s"
      [] c = "N" -> "n"
      [] c = "O" -> "o"
      [] OTHER -> c

Lower(text) == [k \in 1..Len(text) |-> LowerChar(text[k])]

\* needle == hay[k .. k+Len(needle)-1]
MatchAt(hay, needle, k) ==
    /\ k + Len(needle) - 1 <= Len(hay)
    /\ SubSeq(hay, k, k + Len(needle) - 1) = needle

RECURSIVE ScanFrom(_, _, _)
ScanFrom(hay, needle, k) ==
    IF k + Len(needle) - 1 > Len(hay) THEN FALSE
    ELSE IF MatchAt(hay, needle, k) THEN TRUE
    ELSE ScanFrom(hay, needle, k + 1)

\* Python's `needle in hay` on strings: a left-to-right scan
Contains(hay, needle) == ScanFrom(hay, needle, 1)

YesNeedle == <<"y", "e", "s">>

evaluateMut(text) == Contains(text, YesNeedle)

\* evaluate(): "yes" in reply.lower()
evaluate(text) == Contains(Lower(text), YesNeedle)


\* ------------------------------------------------------------------------
\* Question generation: get_clarifying_questions
\* ------------------------------------------------------------------------
IsSpace(c) == c \in {" ", "\n"}

\* str.split("\n"): the pieces between the newlines, empty pieces included
RECURSIVE SplitLines(_, _, _)
SplitLines(text, k, cur) ==
    IF k > Len(text) THEN <<cur>>
    ELSE IF text[k] = "\n" THEN <<cur>> \o SplitLines(text, k + 1, <<>>)
    ELSE SplitLines(text, k + 1, Append(cur, text[k]))

RECURSIVE LStrip(_)
LStrip(s) == IF Len(s) > 0 /\ IsSpace(s[1]) THEN LStrip(Tail(s)) ELSE s

RECURSIVE RStrip(_)
RStrip(s) ==
    IF Len(s) > 0 /\ IsSpace(s[Len(s)]) THEN RStrip(SubSeq(s, 1, Len(s) - 1)) ELSE s

\* str.strip()
Strip(s) == RStrip(LStrip(s))

KeepLineMut(line) == line # <<>>

\* the filter of the comprehension: `if q.strip()`
KeepLine(line) == Strip(line) # <<>>

RECURSIVE StripKept(_)
StripKept(lines) ==
    IF lines = <<>> THEN <<>>
    ELSE IF KeepLine(Head(lines)) THEN <<Strip(Head(lines))>> \o StripKept(Tail(lines))
    ELSE StripKept(Tail(lines))

\* questions = [q.strip() for q in text.split("\n") if q.strip()]
ParseQuestions(text) == StripKept(SplitLines(text, 1, <<>>))

\* ------------------------------------------------------------------------
\* Domains of the inputs
\* ------------------------------------------------------------------------
TopicInputs == {"", "t1", "t2"}
AnswerInputs == {"", "x", "y"}
QueryTexts == {"qa", "qb"}
QueryLists == SeqsUpTo(QueryTexts, MaxBatch)

\* reply of the completion service to the question-generation call: one
\* question, indented and followed by an empty line
ClarifyReplies == {<<" ", "a", "\n", "\n">>}

\* replies to the evaluation call
YesDot == <<"Y", "e", "s", ".">>
NoInsufficient == <<"N", "o", ",", " ", "i", "n", "s", "u", "f", "f", "i", "c", "i",
                    "e", "n", "t", ".">>
EvalReplies == {YesDot, NoInsufficient}

\* reply texts given to evaluate on its own: a core with text around it
EvalAlphabet == {"y", "e", "s", "Y", "E", "S", "x"}
EvalCores == {<<>>, YesDot, NoInsufficient}
EvalTexts == {pre \o core \o suf : pre \in SeqsUpTo(EvalAlphabet, MaxPre),
                                    core \in EvalCores,
                                    suf \in SeqsUpTo(EvalAlphabet, MaxSuf)}

\* reply texts given to the question parsing on its own
QuestionAlphabet == {"a", " ", "\n"}
QuestionTexts == SeqsUpTo(QuestionAlphabet, MaxText)

\* a JSON reply text, by what json.loads makes of it
JsonInvalid == [json |-> "invalid", items |-> <<>>]
JsonObject == [json |-> "object", items |-> <<>>]
JsonArray(ql) == [json |-> "array", items |-> ql]
ReplanReplies == {JsonInvalid, JsonObject} \cup {JsonArray(ql) : ql \in QueryLists}
PlanObject(ql) == [json |-> "object", items |-> ql]
PlanReplies == {JsonInvalid} \cup {PlanObject(ql) : ql \in QueryLists}

\* shapes of a search response: number of output items, content blocks of
\* the second one
SearchReplies == {[items |-> 2, blocks |-> 1], [items |-> 1, blocks |-> 0],
                  [items |-> 2, blocks |-> 0]}

\* ------------------------------------------------------------------------
\* State
\* ------------------------------------------------------------------------
VARIABLES
    topic,            \* value of the text_input 'topic'
    answerBox,        \* values of the text_inputs 'answer_<i>'
    ss,               \* st.session_state: a function on the keys that are set
    pc,               \* where the running script waits, or "idle"
    trigger,          \* the interaction that started the current run
    collected,        \* local `collected` of main
    current_queries,  \* local `current_queries` of main
    iteration_count,  \* local `iteration_count` of main
    idx,              \* position of the search loop in current_queries
    calls,            \* calls to the completion service made by the run
    display,          \* what the last finished run showed at its end
    rendered,         \* widgets the last finished run drew
    evalCalls,        \* evaluation calls since research began at count 0
    replanReply,      \* the re-plan reply the run received, if any
    searchReply,      \* the search response the last step received, if any
    startTopic,       \* the topic when research was started, "" when it is not
    loopOutcome,      \* how the last run that reached the loop ended
    recording,        \* whether startTopic and loopOutcome are kept on record
    evalReply,        \* a reply text given to evaluate on its own
    evalOut,          \* <<result>> once evaluate was applied to it
    clarifyText,      \* a reply text given to the question parsing on its own
    questionsOut      \* <<question list>> once it was parsed

scriptVars == <<topic, answerBox, ss, pc, trigger, collected, current_queries,
                iteration_count, idx, calls, display, rendered, evalCalls,
                replanReply, searchReply, startTopic, loopOutcome,
                recording>>
funVars == <<evalReply, evalOut, clarifyText, questionsOut>>
vars == <<scriptVars, funVars>>

\* ------------------------------------------------------------------------
\* st.session_state
\* ------------------------------------------------------------------------
EmptyState == <<>>

Has(s, k) == k \in DOMAIN s

\* st.session_state.get(k, d)
Get(s, k, d) == IF Has(s, k) THEN s[k] ELSE d

\* st.session_state[k] = v
Put(s, k, v) == [x \in (DOMAIN s) \cup {k} |-> IF x = k THEN v ELSE s[x]]


\* ------------------------------------------------------------------------
\* Records of the run
\* ------------------------------------------------------------------------
NoGoal == [topic |-> "", answers |-> <<>>]

\* one call to client.responses.create, with what it was given
Call(kind, q, goal, coll) ==
    [kind |-> kind, q |-> q, goal |-> goal, collected |-> coll, result |-> "pending"]

\* the last call of the log has returned
Returned(log, res) == [log EXCEPT ![Len(log)].result = res]

NoReply == [json |-> "none", items |-> <<>>]

\* run_search's return value
SearchResult(q) == [query |-> q, resp_id |-> "id", research_output |-> "text"]

NoWidgets == [nq |-> 0, start |-> FALSE, new |-> FALSE]

NoSearchReply == [items |-> 0, blocks |-> 0]

\* ------------------------------------------------------------------------
\* Decisions of main
\* ------------------------------------------------------------------------
\* `if not topic`
NoTopic(tp) == tp = ""

NeedClarify(s, tp) == ~Has(s, "clarify_data") \/ Get(s, "last_topic", "") # tp

\* answers = [st.text_input(question, key=f'answer_{i}') ...]
AnswersOf(questions, ab) == [k \in 1..Len(questions) |-> ab[k]]

\* all(answer.strip() for answer in answers)
AllAnswered(answers) == \A k \in 1..Len(answers) : answers[k] # ""

NeedPlan(s, answers) == ~Has(s, "goal_plan") \/ Get(s, "last_answers", <<>>) # answers

NextCountMut(ic) == ic + 2

\* `iteration_count + 1`, stored after the search loop
NextCount(ic) == ic + 1

LoadCollectedMut(s) == <<>>

\* collected = st.session_state.get('collected', [])
LoadCollected(s) == Get(s, "collected", <<>>)

ResetResearchMut(s) == Put(Put(s, "collected", <<>>), "iteration_count", 0)

\* lines 264-266: the research state is reset after the report
ResetResearch(s) ==
    Put(Put(Put(s, "research_started", FALSE), "collected", <<>>), "iteration_count", 0)

UnderCapMut(ic) == ic <= max_iterations

\* `if iteration_count < max_iterations`
UnderCap(ic) == ic < max_iterations

AlreadySearchedMut(q, coll) == coll # <<>> /\ coll[Len(coll)].query = q

\* any(item['query'] == q for item in collected)
AlreadySearched(q, coll) == \E k \in 1..Len(coll) : coll[k].query = q

\* the next position from k on whose query the loop searches, or
\* Len(cq) + 1 when the loop is over
NextSearchMut(cq, coll, k) ==
    IF k > Len(cq) THEN k
    ELSE IF ~AlreadySearched(cq[k], coll) THEN k
    ELSE Len(cq) + 1

RECURSIVE NextSearch(_, _, _)
NextSearch(cq, coll, k) ==
    IF k > Len(cq) THEN k
    ELSE IF ~AlreadySearched(cq[k], coll) THEN k
    ELSE NextSearch(cq, coll, k + 1)

SearchShapeOkMut(reply) == reply.items >= 2

\* web_search.output[1].content[0] exists
SearchShapeOk(reply) == reply.items >= 2 /\ reply.blocks >= 1

JsonDecodes(reply) == reply.json # "invalid"

IsListMut(v) == v.json \in {"array", "object"}

\* isinstance(new_queries, list)
IsList(v) == v.json = "array"

\* ------------------------------------------------------------------------
\* Ends and continuations of a run.  Each states the whole next state of the
\* script except topic, answerBox and trigger, which the action sets.
\* ------------------------------------------------------------------------
Goto(s, p, coll, cq, ic, k, log, d, r, ec) ==
    /\ ss' = s
    /\ pc' = p
    /\ collected' = coll
    /\ current_queries' = cq
    /\ iteration_count' = ic
    /\ idx' = k
    /\ calls' = log
    /\ display' = d
    /\ rendered' = r
    /\ evalCalls' = ec

\* the script returns, or dies of an exception: the locals are gone
Finish(s, log, d, r, ec) == Goto(s, "idle", <<>>, <<>>, 0, 0, <<>>, d, r, ec)

\* lines 220-242: the search loop from position k on, up to the next call
SearchLoop(s, coll, cq, ic, k, log, r, ec) ==
    LET j == NextSearch(cq, coll, k) IN
    IF j <= Len(cq)
    THEN Goto(s, "search", coll, cq, ic, j,
              Append(log, Call("search", cq[j], NoGoal, <<>>)), "running", r, ec)
    ELSE LET s1 == Put(Put(s, "collected", coll), "iteration_count", NextCount(ic)) IN
         Goto(s1, "evaluate", coll, cq, ic, j,
              Append(log, Call("evaluate", "", s["goal_plan"].goal, coll)),
              "running", r, ec + 1)

\* lines 189-213 and 300-312: the plan is shown, the loop is entered or not
ShowPlan(s, trig, nq, log, ec) ==
    LET r == [nq |-> nq, start |-> TRUE, new |-> FALSE] IN
    IF trig = "start" \/ Get(s, "research_started", FALSE)
    THEN LET s1 == Put(s, "research_started", TRUE)
             coll == LoadCollected(s1)
             cq == Get(s1, "current_queries", s1["goal_plan"].queries)
             ic == Get(s1, "iteration_count", 0)
         IN  IF UnderCap(ic)
             THEN SearchLoop(s1, coll, cq, ic, 1, log, r, IF ic = 0 THEN 0 ELSE ec)
             ELSE Finish(s1, log, "cap", r, ec)
    ELSE Finish(s, log, "ready", r, ec)

\* lines 173-187: the answers are read, the plan is made or reused
ReadAnswers(s, tp, ab, trig, log, ec) ==
    LET questions == s["clarify_data"].questions
        answers == AnswersOf(questions, ab)
        r == [nq |-> Len(questions), start |-> FALSE, new |-> FALSE]
    IN  IF ~AllAnswered(answers) THEN Finish(s, log, "need_answers", r, ec)
        ELSE IF NeedPlan(s, answers)
        THEN Goto(s, "plan", <<>>, <<>>, 0, 0,
                  Append(log, Call("plan", "", [topic |-> tp, answers |-> answers], <<>>)),
                  "running", r, ec)
        ELSE ShowPlan(s, trig, Len(questions), log, ec)

\* lines 158-170: the script from its top with the widgets' values
RunScript(s, tp, ab, trig, ec) ==
    IF NoTopic(tp) THEN Finish(s, <<>>, "need_topic", NoWidgets, ec)
    ELSE IF NeedClarify(s, tp)
    THEN Goto(s, "clarify", <<>>, <<>>, 0, 0,
              <<Call("clarify", tp, NoGoal, <<>>)>>, "running", NoWidgets, ec)
    ELSE ReadAnswers(s, tp, ab, trig, <<>>, ec)


\* ------------------------------------------------------------------------
\* Initial state: the page is loaded, the topic box is empty
\* ------------------------------------------------------------------------
InitPage ==
    /\ topic = ""
    /\ answerBox = [k \in 1..MaxQuestions |-> ""]
    /\ ss = EmptyState
    /\ pc = "idle"
    /\ trigger = "load"
    /\ collected = <<>>
    /\ current_queries = <<>>
    /\ iteration_count = 0
    /\ idx = 0
    /\ calls = <<>>
    /\ display = "need_topic"
    /\ rendered = NoWidgets
    /\ evalCalls = 0
    /\ replanReply = NoReply
    /\ searchReply = NoSearchReply
    /\ startTopic = ""
    /\ loopOutcome = "none"

InitScript == InitPage /\ recording = FALSE

InitFun ==
    /\ evalReply = <<>>
    /\ evalOut = <<>>
    /\ clarifyText = <<>>
    /\ questionsOut = <<>>

Init == InitScript /\ InitFun

\* ------------------------------------------------------------------------
\* What the step leaves on record: the topic under which research was
\* started, and the end of the last run that reached the research loop
\* ------------------------------------------------------------------------
InLoop(p) == p \in {"search", "evaluate", "synthesize", "replan"}

Started(s) == Get(s, "research_started", FALSE)

History ==
    /\ recording' = recording
    /\ startTopic' = IF ~recording THEN ""
                     ELSE IF Started(ss') /\ ~Started(ss) THEN topic'
                     ELSE IF ~Started(ss') THEN ""
                     ELSE startTopic
    /\ loopOutcome' = IF ~recording THEN "none"
                      ELSE IF InLoop(pc') THEN "running"
                      ELSE IF InLoop(pc) \/ display' = "cap" THEN display'
                      ELSE loopOutcome

\* ------------------------------------------------------------------------
\* The user's interactions; each one reruns the script
\* ------------------------------------------------------------------------
\* a run that returns at line 160 draws no answer box, and the framework
\* forgets the value of a keyed widget that a run did not draw
EditTopic(t) ==
    /\ pc = "idle"
    /\ t # topic
    /\ topic' = t
    /\ answerBox' = IF NoTopic(t) THEN [k \in 1..MaxQuestions |-> ""] ELSE answerBox
    /\ trigger' = "edit"
    /\ RunScript(ss, t, answerBox', "edit", evalCalls)
    /\ replanReply' = NoReply
    /\ UNCHANGED funVars
    /\ searchReply' = NoSearchReply
    /\ History

EditAnswer(k, a) ==
    /\ pc = "idle"
    /\ k <= rendered.nq
    /\ a # answerBox[k]
    /\ answerBox' = [answerBox EXCEPT ![k] = a]
    /\ trigger' = "edit"
    /\ RunScript(ss, topic, answerBox', "edit", evalCalls)
    /\ replanReply' = NoReply
    /\ UNCHANGED <<topic, funVars>>
    /\ searchReply' = NoSearchReply
    /\ History

\* st.button("Start Research") is pressed
PressStart ==
    /\ pc = "idle"
    /\ rendered.start
    /\ trigger' = "start"
    /\ RunScript(ss, topic, answerBox, "start", evalCalls)
    /\ replanReply' = NoReply
    /\ UNCHANGED <<topic, answerBox, funVars>>
    /\ searchReply' = NoSearchReply
    /\ History

\* st.button("Start New Research") is pressed
PressNewResearch ==
    /\ pc = "idle"
    /\ rendered.new
    /\ trigger' = "new"
    /\ RunScript(ss, topic, answerBox, "new", evalCalls)
    /\ replanReply' = NoReply
    /\ UNCHANGED <<topic, answerBox, funVars>>
    /\ searchReply' = NoSearchReply
    /\ History

\* st.download_button is pressed
PressDownload ==
    /\ pc = "idle"
    /\ display = "report"
    /\ trigger' = "download"
    /\ RunScript(ss, topic, answerBox, "download", evalCalls)
    /\ replanReply' = NoReply
    /\ UNCHANGED <<topic, answerBox, funVars>>
    /\ searchReply' = NoSearchReply
    /\ History

\* ------------------------------------------------------------------------
\* The script goes on when a call to the completion service returns
\* ------------------------------------------------------------------------
\* lines 166-168
ClarifyReturn(reply) ==
    /\ pc = "clarify"
    /\ LET data == [questions |-> ParseQuestions(reply), id |-> topic]
           s1 == Put(Put(ss, "clarify_data", data), "last_topic", topic)
       IN  ReadAnswers(s1, topic, answerBox, trigger, Returned(calls, "ok"), evalCalls)
    /\ UNCHANGED <<topic, answerBox, trigger, replanReply, funVars>>
    /\ searchReply' = NoSearchReply
    /\ History

\* lines 95 and 181-184; the goal of the reply is named by the topic and
\* the answers the prompt carried
PlanReturn(reply) ==
    /\ pc = "plan"
    /\ LET answers == AnswersOf(ss["clarify_data"].questions, answerBox)
           goal == [topic |-> topic, answers |-> answers]
           plan == [goal |-> goal, queries |-> reply.items]
           s1 == Put(Put(Put(ss, "goal_plan", plan), "goal_queries_id", goal),
                     "last_answers", answers)
       IN  IF JsonDecodes(reply)
           THEN ShowPlan(s1, trigger, rendered.nq, Returned(calls, "ok"), evalCalls)
           ELSE Finish(ss, calls, "fault", rendered, evalCalls)
    /\ UNCHANGED <<topic, answerBox, trigger, replanReply, funVars>>
    /\ searchReply' = NoSearchReply
    /\ History

\* lines 108-110 and 227-228
SearchReturn(reply) ==
    /\ pc = "search"
    /\ LET coll1 == Append(collected, SearchResult(current_queries[idx]))
           s1 == IF Has(ss, "collected") THEN Put(ss, "collected", coll1) ELSE ss
       IN  IF SearchShapeOk(reply)
           THEN SearchLoop(s1, coll1, current_queries, iteration_count, idx + 1,
                           Returned(calls, "ok"), rendered, evalCalls)
           ELSE Finish(ss, calls, "fault", rendered, evalCalls)
    /\ UNCHANGED <<topic, answerBox, trigger, replanReply, funVars>>
    /\ searchReply' = reply
    /\ History

\* lines 125 and 242-249, 274-287
EvalReturn(reply) ==
    /\ pc = "evaluate"
    /\ LET goal == ss["goal_plan"].goal IN
       IF evaluate(reply)
       THEN Goto(ss, "synthesize", collected, current_queries, iteration_count, idx,
                 Append(Returned(calls, "yes"), Call("synthesize", "", goal, collected)),
                 "running", rendered, evalCalls)
       ELSE Goto(ss, "replan", collected, current_queries, iteration_count, idx,
                 Append(Returned(calls, "no"), Call("replan", "", goal, collected)),
                 "running", rendered, evalCalls)
    /\ UNCHANGED <<topic, answerBox, trigger, replanReply, funVars>>
    /\ searchReply' = NoSearchReply
    /\ History

\* lines 251-272; st.button("Start New Research") is true only in a run
\* that its own press started: then every key is deleted and st.rerun()
\* runs the script again
SynthReturn ==
    /\ pc = "synthesize"
    /\ LET s1 == ResetResearch(ss)
       IN  IF trigger = "new"
           THEN /\ trigger' = "rerun"
                /\ RunScript(EmptyState, topic, answerBox, "rerun", evalCalls)
           ELSE /\ trigger' = trigger
                /\ Finish(s1, calls, "report", [rendered EXCEPT !.new = TRUE], evalCalls)
    /\ UNCHANGED <<topic, answerBox, replanReply, funVars>>
    /\ searchReply' = NoSearchReply
    /\ History

\* lines 289-299
ReplanReturn(reply) ==
    /\ pc = "replan"
    /\ IF JsonDecodes(reply)
       THEN IF IsList(reply)
            THEN Finish(Put(ss, "current_queries", reply.items), calls, "new_queries",
                        rendered, evalCalls)
            ELSE Finish(ss, calls, "error_not_list", rendered, evalCalls)
       ELSE Finish(ss, calls, "error_json", rendered, evalCalls)
    /\ replanReply' = reply
    /\ UNCHANGED <<topic, answerBox, trigger, funVars>>
    /\ searchReply' = NoSearchReply
    /\ History

Next ==
    \/ \E t \in TopicInputs : EditTopic(t)
    \/ \E k \in 1..MaxQuestions, a \in AnswerInputs : EditAnswer(k, a)
    \/ PressStart
    \/ PressNewResearch
    \/ PressDownload
    \/ \E reply \in ClarifyReplies : ClarifyReturn(reply)
    \/ \E reply \in PlanReplies : PlanReturn(reply)
    \/ \E reply \in SearchReplies : SearchReturn(reply)
    \/ \E reply \in EvalReplies : EvalReturn(reply)
    \/ SynthReturn
    \/ \E reply \in ReplanReplies : ReplanReturn(reply)

Spec == Init /\ [][Next]_vars

\* the same program, with the session's history kept on record
InitRecorded == InitPage /\ recording = TRUE /\ InitFun

SpecRecorded == InitRecorded /\ [][Next]_vars


\* ------------------------------------------------------------------------
\* evaluate on its own: the reply is drawn, the function is applied
\* ------------------------------------------------------------------------
InitEval ==
    /\ InitScript
    /\ evalReply \in EvalTexts
    /\ evalOut = <<>>
    /\ clarifyText = <<>>
    /\ questionsOut = <<>>

ApplyEvaluate ==
    /\ evalOut = <<>>
    /\ evalOut' = <<evaluate(evalReply)>>
    /\ UNCHANGED <<scriptVars, evalReply, clarifyText, questionsOut>>

NextEval == ApplyEvaluate

SpecEval == InitEval /\ [][NextEval]_vars

\* ------------------------------------------------------------------------
\* The question parsing on its own
\* ------------------------------------------------------------------------
InitQuestions ==
    /\ InitScript
    /\ evalReply = <<>>
    /\ evalOut = <<>>
    /\ clarifyText \in QuestionTexts
    /\ questionsOut = <<>>

ApplyParseQuestions ==
    /\ questionsOut = <<>>
    /\ questionsOut' = <<ParseQuestions(clarifyText)>>
    /\ UNCHANGED <<scriptVars, evalReply, evalOut, clarifyText>>

NextQuestions == ApplyParseQuestions

SpecQuestions == InitQuestions /\ [][NextQuestions]_vars


\* ------------------------------------------------------------------------
\* Properties of the research loop
\* ------------------------------------------------------------------------
\* the value of a session key as a sequence: empty when the key is not set
Stored(s, k) == IF Has(s, k) THEN <<s[k]>> ELSE <<>>

QueriesOf(coll) == [k \in 1..Len(coll) |-> coll[k].query]

NoRepeat(seq) == \A a, b \in 1..Len(seq) : a # b => seq[a] # seq[b]

InHead == pc \in {"idle", "clarify", "plan"}

\* the search calls of the run, in the order they were issued
SearchCalls == SelectSeq(calls, LAMBDA c : c.kind = "search")

\* C1: the stored iteration count is always an integer from 0 to 5.
IterationCountBounded ==
    /\ Get(ss, "iteration_count", 0) \in 0..5
    /\ iteration_count \in 0..5

\* the cap is reached: five iterations were counted
IterationCountAtCap == Get(ss, "iteration_count", 0) = 5 /\ pc = "evaluate"

\* C2: no two entries of the collected list have the same query, neither in
\* the session state nor in the list the running loop appends to.
CollectedQueriesDistinct ==
    /\ NoRepeat(QueriesOf(Get(ss, "collected", <<>>)))
    /\ NoRepeat(QueriesOf(collected))

\* a batch that names a query searched in an earlier iteration has been
\* worked through: that query was passed over, another one was searched
RepeatedQuerySkipped ==
    /\ pc = "evaluate"
    /\ Len(SearchCalls) > 0
    /\ Len(SearchCalls) < Len(current_queries)
    /\ Len(collected) > Len(SearchCalls)

\* C3: a run that begins with a stored iteration count of 5 stays out of the
\* loop: it makes no search, evaluation, re-planning or synthesis call, it
\* leaves the stored collected list, active queries and iteration count as
\* they are, and once it reaches the loop with research started it shows the
\* cap report.
CapRunInert ==
    [][(Get(ss, "iteration_count", 0) = 5 /\ InHead) =>
          /\ InHead'
          /\ \A k \in 1..Len(calls') : calls'[k].kind \in {"clarify", "plan"}
          /\ Stored(ss', "collected") = Stored(ss, "collected")
          /\ Stored(ss', "current_queries") = Stored(ss, "current_queries")
          /\ Stored(ss', "iteration_count") = Stored(ss, "iteration_count")
          /\ (pc' = "idle" /\ rendered'.start /\ Get(ss', "research_started", FALSE)
                => display' = "cap")]_vars

\* a run found the count at 5 and reported what was collected
CapReported ==
    /\ display = "cap"
    /\ Get(ss, "iteration_count", 0) = 5
    /\ Len(Get(ss, "collected", <<>>)) > 0

\* C4: a re-plan reply that is not a JSON array is reported as an error and
\* the stored active query set stays what it was before the call.
ReplanRejectKeepsQueries ==
    [][(pc = "replan" /\ replanReply'.json # "array") =>
          /\ display' \in {"error_json", "error_not_list"}
          /\ Stored(ss', "current_queries") = Stored(ss, "current_queries")]_vars

\* a JSON value that is no array was rejected while a query set was stored
NonListRejected ==
    /\ display = "error_not_list"
    /\ replanReply.json = "object"
    /\ Has(ss, "current_queries")

\* C5: within a run, synthesis directly follows an evaluation that returned
\* satisfied and gets the goal and collected list that were evaluated; the
\* evaluation is called when every search of the run has returned and every
\* query of the batch is in the collected list; re-planning directly follows
\* an evaluation that returned not satisfied.
CallOrder ==
    \A k \in 1..Len(calls) :
        /\ calls[k].kind = "synthesize" =>
              /\ k > 1
              /\ calls[k - 1].kind = "evaluate"
              /\ calls[k - 1].result = "yes"
              /\ calls[k - 1].goal = calls[k].goal
              /\ calls[k - 1].collected = calls[k].collected
        /\ calls[k].kind = "evaluate" =>
              /\ \A j \in 1..(k - 1) :
                    calls[j].kind = "search" => calls[j].result = "ok"
              /\ \A q \in Range(current_queries) :
                    q \in Range(QueriesOf(calls[k].collected))
        /\ calls[k].kind = "replan" =>
              /\ k > 1
              /\ calls[k - 1].kind = "evaluate"
              /\ calls[k - 1].result = "no"
              /\ calls[k - 1].goal = calls[k].goal

\* a run searched, evaluated and went on to synthesis
SynthesisAfterSearches ==
    /\ pc = "synthesize"
    /\ \E k \in 1..Len(calls) : calls[k].kind = "search"
    /\ Len(collected) > 1

\* C8: pressing "Start New Research" deletes every key of the session state.
NewResearchClearsState ==
    [][(pc = "idle" /\ trigger' = "new") => ss' = EmptyState]_vars

\* C10: the searches of an iteration are the queries of the active set, in
\* its order, that were not collected when the iteration began and did not
\* occur earlier in the set; each is issued once, when all results before it
\* are in the collected list.
SearchesInOrder ==
    pc \in {"search", "evaluate", "synthesize", "replan"} =>
        LET issued == SearchCalls
            done == SelectSeq(issued, LAMBDA c : c.result = "ok")
            before == SubSeq(collected, 1, Len(collected) - Len(done))
            reached == IF pc = "search" THEN idx ELSE Len(current_queries)
            due == {k \in 1..reached :
                       /\ current_queries[k] \notin Range(QueriesOf(before))
                       /\ \A j \in 1..(k - 1) : current_queries[j] # current_queries[k]}
            nth(n) == CHOOSE k \in due : Cardinality({j \in due : j < k}) = n - 1
        IN  /\ Len(issued) = Cardinality(due)
            /\ \A n \in 1..Len(issued) : issued[n].q = current_queries[nth(n)]
            /\ Len(done) >= Len(issued) - 1
            /\ \A n \in 1..Len(done) :
                  collected[Len(before) + n] = SearchResult(issued[n].q)
            /\ Len(collected) >= Len(done)

\* a second search is in flight and the first result is already collected
SecondSearchInFlight ==
    /\ pc = "search"
    /\ idx = 2
    /\ Len(SearchCalls) = 2
    /\ QueriesOf(collected) = <<current_queries[1]>>


\* ------------------------------------------------------------------------
\* Properties of evaluate
\* ------------------------------------------------------------------------
HasPart(text, part) ==
    \E k \in 1..(Len(text) - Len(part) + 1) : SubSeq(text, k, k + Len(part) - 1) = part

\* some three consecutive characters are y, e, s in any letter case
HasYes(text) ==
    \E k \in 1..(Len(text) - 2) :
        /\ text[k] \in {"y", "Y"}
        /\ text[k + 1] \in {"e", "E"}
        /\ text[k + 2] \in {"s", "S"}

LineStarts(text) == {1} \cup {k + 1 : k \in {j \in 1..Len(text) : text[j] = "\n"}}

\* last position of the line that starts at p (p - 1 for an empty line)
LineEnd(text, p) ==
    IF \E k \in p..Len(text) : text[k] = "\n"
    THEN (CHOOSE k \in p..Len(text) :
              text[k] = "\n" /\ \A j \in p..(k - 1) : text[j] # "\n") - 1
    ELSE Len(text)

\* positions of the line's characters that are not whitespace
Ink(text, p) == {k \in p..LineEnd(text, p) : ~IsSpace(text[k])}

Least(S) == CHOOSE k \in S : \A j \in S : k <= j
Greatest(S) == CHOOSE k \in S : \A j \in S : k >= j

\* C9: the question list is the reply's newline-separated lines, stripped,
\* without the lines that are empty after stripping, in the original order;
\* every entry is non-empty; a reply of 5 lines that all have text gives
\* exactly 5 entries.
QuestionsAreStrippedLines ==
    questionsOut # <<>> =>
        LET text == clarifyText
            out == questionsOut[1]
            kept == {p \in LineStarts(text) : Ink(text, p) # {}}
            nth(n) == CHOOSE p \in kept : Cardinality({j \in kept : j < p}) = n - 1
        IN  /\ Len(out) = Cardinality(kept)
            /\ \A n \in 1..Len(out) :
                  /\ out[n] = SubSeq(text, Least(Ink(text, nth(n))),
                                     Greatest(Ink(text, nth(n))))
                  /\ out[n] # <<>>
            /\ (Cardinality(LineStarts(text)) = 5 /\ kept = LineStarts(text))
                  => Len(out) = 5

\* a reply of five lines was parsed into five questions
FiveQuestionsParsed ==
    /\ questionsOut # <<>>
    /\ Cardinality(LineStarts(clarifyText)) = 5
    /\ Len(questionsOut[1]) = 5


\* ------------------------------------------------------------------------
\* The session that goes on: every call returns in the shape the script
\* expects, the user never empties an input box, and does press
\* "Start Research" when the page waits for it
\* ------------------------------------------------------------------------
GoodPlanReplies == {r \in PlanReplies : JsonDecodes(r)}
GoodSearchReplies == {r \in SearchReplies : SearchShapeOk(r)}
GoodReplanReplies == {r \in ReplanReplies : JsonDecodes(r) /\ IsList(r)}

\* the user stays with one topic
LiveTopics == {"t1"}

CallReturnsWell ==
    \/ \E reply \in ClarifyReplies : ClarifyReturn(reply)
    \/ \E reply \in GoodPlanReplies : PlanReturn(reply)
    \/ \E reply \in GoodSearchReplies : SearchReturn(reply)
    \/ \E reply \in EvalReplies : EvalReturn(reply)
    \/ SynthReturn
    \/ \E reply \in GoodReplanReplies : ReplanReturn(reply)

LiveNext ==
    \/ \E t \in LiveTopics : EditTopic(t)
    \/ \E k \in 1..MaxQuestions, a \in AnswerInputs \ {""} : EditAnswer(k, a)
    \/ PressStart
    \/ PressNewResearch
    \/ PressDownload
    \/ CallReturnsWell

LiveSpec ==
    /\ Init
    /\ [][LiveNext]_vars
    /\ WF_vars(PressStart)
    /\ WF_vars(CallReturnsWell)

\* C6: once the loop is entered with iteration count 0, the session reaches
\* a synthesized report or a stored iteration count of 5, and no more than 5
\* evaluation calls are made on the way.
ResearchTerminates ==
    /\ (pc \in {"search", "evaluate"} /\ iteration_count = 0)
          ~> (display = "report" \/ Get(ss, "iteration_count", 0) = 5)
    /\ [](evalCalls <= 5)

\* the fifth evaluation of a session was not satisfied
FifthEvaluationUnsatisfied ==
    /\ pc = "replan"
    /\ evalCalls = 5


\* ------------------------------------------------------------------------
\* Properties of a research session across its runs
\* ------------------------------------------------------------------------
IsPrefix(a, b) == Len(a) <= Len(b) /\ SubSeq(b, 1, Len(a)) = a

LoopCall(c) == c.kind \in {"search", "evaluate", "replan", "synthesize"}

\* C11: until the report, collected results are never dropped: the list
\* given to an evaluation, a re-planning call or the synthesis is the list
\* stored in the session, and that list only grows at its end from one step
\* to the next, so every result evaluated once is there, in the same order,
\* at every later evaluation, re-planning call and synthesis.
CollectedKeptUntilReport ==
    /\ [](pc \in {"evaluate", "replan", "synthesize"} =>
            /\ collected = Get(ss, "collected", <<>>)
            /\ calls[Len(calls)].collected = collected)
    /\ [][pc # "synthesize" =>
            IsPrefix(Get(ss, "collected", <<>>), Get(ss', "collected", <<>>))]_vars

\* a second evaluation gets the result of the first iteration and a new one
SecondEvaluationHasMore ==
    /\ pc = "evaluate"
    /\ Get(ss, "iteration_count", 0) = 2
    /\ Len(collected) = 2
    /\ Len(SearchCalls) = 1

\* C12: after the report the session has research not started, an empty
\* collected list and iteration count 0; and as long as research is not
\* started, a run that the Start Research button did not trigger makes no
\* search, evaluation, re-planning or synthesis call.
QuietAfterReport ==
    /\ [](display = "report" =>
            /\ Stored(ss, "research_started") = <<FALSE>>
            /\ Stored(ss, "collected") = << <<>> >>
            /\ Stored(ss, "iteration_count") = <<0>>)
    /\ [][(InHead /\ ~Get(ss, "research_started", FALSE) /\ trigger' # "start") =>
            /\ InHead'
            /\ \A k \in 1..Len(calls') : ~LoopCall(calls'[k])]_vars

\* after a report, a run started by the download button ended at the plan
RerunAfterReport ==
    /\ pc = "idle"
    /\ trigger = "download"
    /\ display = "ready"
    /\ Stored(ss, "iteration_count") = <<0>>

\* C13: after a run that ended with accepted new queries, a step of a run
\* that the Start Research button did not trigger issues no search, makes no
\* other call of the loop and leaves the stored iteration count as it is.
StartNeededAfterReplan ==
    [][(loopOutcome = "new_queries" /\ trigger' # "start") =>
          /\ ~InLoop(pc')
          /\ Get(ss', "iteration_count", 0) = Get(ss, "iteration_count", 0)]_vars

\* C14: when a search response has fewer than two output items, or no
\* content block in the second one, the run ends there with the fault: no
\* evaluation, re-planning or synthesis call is made in that run, and the
\* stored iteration count stays as it was.
MalformedSearchAborts ==
    [][(pc = "search" /\ (searchReply'.items < 2 \/ searchReply'.blocks < 1)) =>
          /\ pc' = "idle"
          /\ display' = "fault"
          /\ Stored(ss', "iteration_count") = Stored(ss, "iteration_count")
          /\ \A k \in 1..Len(calls) :
                calls[k].kind \notin {"evaluate", "replan", "synthesize"}]_vars

\* the last search of a batch came back with two output items and no
\* content block in the second, in the second iteration of a session
SearchFaultInSecondIteration ==
    /\ pc = "idle"
    /\ display = "fault"
    /\ searchReply = [items |-> 2, blocks |-> 0]
    /\ Get(ss, "iteration_count", 0) = 1

\* C15: every search, evaluation, re-planning and synthesis call is made
\* while the topic box holds the topic that was entered when research was
\* started.
LoopCallsUnderStartTopic ==
    (recording /\ InLoop(pc)) => topic = startTopic

\* the reply opens with the word "No", in any letter case
AnswersNo(text) ==
    /\ Len(text) >= 2
    /\ text[1] \in {"n", "N"}
    /\ text[2] \in {"o", "O"}

\* C16: a reply that answers no is evaluated as not satisfied, whatever
\* other words it contains: the result is true only for a reply that does not
\* open with "No".
NegativeReplyNotSatisfied ==
    (evalOut # <<>> /\ AnswersNo(evalReply)) => ~evalOut[1]

\* C17: whenever a run is in the research loop, the plan in use was
\* generated from the topic in the topic box, from the questions asked for
\* that topic and from the answers in the answer boxes.
PlanMadeForCurrentInputs ==
    InLoop(pc) =>
        /\ ss["goal_plan"].goal.topic = topic
        /\ ss["clarify_data"].id = topic
        /\ ss["goal_plan"].goal.answers =
              AnswersOf(ss["clarify_data"].questions, answerBox)

\* C18: when a new plan is generated while research is in progress and the
\* run goes on into the loop, nothing of the previous plan is carried over:
\* the collected list is empty, the iteration count is 0 and the active
\* query set is the new plan's initial query list.
NewPlanStartsAfresh ==
    [][(pc = "plan" /\ Started(ss) /\ InLoop(pc')) =>
          /\ collected' = <<>>
          /\ iteration_count' = 0
          /\ current_queries' = ss'["goal_plan"].queries]_vars

\* C19: a run that enters the research loop with iteration count 0 and an
\* empty collected list searches the plan's initial query list.
FirstBatchIsPlanQueries ==
    [][(~InLoop(pc) /\ InLoop(pc') /\ iteration_count' = 0 /\ collected' = <<>>) =>
          current_queries' = ss'["goal_plan"].queries]_vars

====
